---- MODULE Spec2Model ----
(***************************************************************************)
(* Model of tcbuilder/backend/isolate.py: one run of isolate_user_changes  *)
(* against a remote device, with the remote configuration root, the remote *)
(* scratch directory, the SSH session and the local output directory.      *)
(*                                                                         *)
(* Strings are sequences of tokens.  The separators the code splits on     *)
(* ("/", whitespace, "\r\n") are tokens of their own, so rsplit, split,    *)
(* strip and concatenation are computed as Python computes them.           *)
(***************************************************************************)
EXTENDS FiniteSets, Integers, Sequences, TLC

(***************************************************************************)
(* Bounds                                                                  *)
(***************************************************************************)
\* longest list of record lines the diff reports in one run
MaxLines == 3

\* the number of consecutive runs against one remote
MaxRuns == 3

(***************************************************************************)
(* String helpers (Python str methods on token sequences)                  *)
(***************************************************************************)
SLASH == "/"
SPACE == " "
CRLF == "\r\n"

IsWhitespace(t) == t \in {SPACE, CRLF}

\* s1 + sep + s2 + sep + ... for a sequence of strings
RECURSIVE join(_, _)
join(sep, ss) ==
    IF ss = <<>> THEN <<>>
    ELSE IF Len(ss) = 1 THEN ss[1]
    ELSE ss[1] \o <<sep>> \o join(sep, Tail(ss))

\* str.split(sep): empty pieces are kept.  (The string is bound by a
\* quantifier so that it is evaluated once, not at each of its uses.)
RECURSIVE split_sep(_, _)
split_sep(str, sep) ==
    CHOOSE pieces \in
        {LET I == {i \in 1..Len(s) : s[i] = sep}
         IN  IF I = {} THEN <<s>>
             ELSE LET i == CHOOSE k \in I : \A j \in I : k <= j
                  IN  <<SubSeq(s, 1, i - 1)>> \o split_sep(SubSeq(s, i + 1, Len(s)), sep) :
         s \in {str}} : TRUE

\* str.split(): runs of whitespace separate, empty pieces are dropped
RECURSIVE split(_)
split(str) ==
    CHOOSE pieces \in
        {LET I == {i \in 1..Len(s) : IsWhitespace(s[i])}
         IN  IF I = {} THEN (IF s = <<>> THEN <<>> ELSE <<s>>)
             ELSE LET i == CHOOSE k \in I : \A j \in I : k <= j
                      rest == split(SubSeq(s, i + 1, Len(s)))
                  IN  IF i = 1 THEN rest ELSE <<SubSeq(s, 1, i - 1)>> \o rest :
         s \in {str}} : TRUE

\* str.strip()
RECURSIVE lstrip(_)
lstrip(s) == IF s # <<>> /\ IsWhitespace(Head(s)) THEN lstrip(Tail(s)) ELSE s
RECURSIVE rstrip(_)
rstrip(s) == IF s # <<>> /\ IsWhitespace(s[Len(s)]) THEN rstrip(SubSeq(s, 1, Len(s) - 1)) ELSE s
strip(s) == rstrip(lstrip(s))

\* str.rsplit('/', 1)
rsplit1(str) ==
    CHOOSE pieces \in
        {LET I == {i \in 1..Len(s) : s[i] = SLASH}
         IN  IF I = {} THEN <<s>>
             ELSE LET i == CHOOSE k \in I : \A j \in I : j <= k
                  IN  <<SubSeq(s, 1, i - 1), SubSeq(s, i + 1, Len(s))>> :
         s \in {str}} : TRUE

\* the elements of a sequence
Range(s) == {s[i] : i \in 1..Len(s)}

(***************************************************************************)
(* Program constants                                                       *)
(***************************************************************************)
ignore_files ==
    << <<"gshadow">>, <<"machine-id">>, <<"group">>, <<"shadow">>,
       <<"systemd", SLASH, "system", SLASH, "sysinit.target.wants", SLASH, "run-postinsts.service">>,
       <<"ostree", SLASH, "remotes.d", SLASH, "toradex-nightly.conf">>,
       <<"docker", SLASH, "key.json">>, <<".updated">>, <<".pwd.lock">>, <<"group-">>,
       <<"gshadow-">>, <<"hostname">>,
       <<"ssh", SLASH, "ssh_host_rsa_key">>, <<"ssh", SLASH, "ssh_host_rsa_key.pub">>,
       <<"ssh", SLASH, "ssh_host_ecdsa_key">>, <<"ssh", SLASH, "ssh_host_ecdsa_key.pub">>,
       <<"ssh", SLASH, "ssh_host_ed25519_key">>, <<"ssh", SLASH, "ssh_host_ed25519_key.pub">> >>

TAR_NAME == "isolated_changes.tar"

\* error messages of the TorizonCoreBuilderError raised by the run
MsgDiff == "Unable to get config diff"
MsgNoChange == "no change is made in /etc by user"
MsgNoSftp == "Unable to connect to the host"
MsgWhiteout == "Deleted Files information is not moved to host"
MsgTar == "Unable to collect info"

(***************************************************************************)
(* The remote configuration root /etc the run reads                        *)
(***************************************************************************)
\* paths (relative to /etc) the device may hold: a root-level directory with
\* an ignored file, a plain file and a file named like the archive in it
Entities ==
    << <<"docker">>, <<"docker", SLASH, "key.json">>, <<"docker", SLASH, "daemon.json">>,
       <<"docker", SLASH, TAR_NAME>> >>

\* the parent directory of an entity, <<>> for a root-level one
Parent(p) == IF Len(rsplit1(p)) = 1 THEN <<>> ELSE rsplit1(p)[1]

\* the entities that are directories
IsDir(p) == \E q \in Range(Entities) : Parent(q) = p

\* the states of /etc: every entity's parent directory exists
EtcStates ==
    {e \in SUBSET Range(Entities) : \A p \in e : Parent(p) = <<>> \/ Parent(p) \in e}

\* status letters the diff prints: a path present in /etc is added, modified or
\* carries a letter the code does not know; an absent one is deleted
CodesFor(p, e) == IF p \in e THEN {"A", "M", "U"} ELSE {"D"}

\* one line of `ostree admin config-diff`: "<code>    <path>"
DiffLine(code, p) == <<code, SPACE, SPACE>> \o p

\* sequences of at most n distinct entities
RECURSIVE PathSeqs(_)
PathSeqs(n) ==
    IF n = 0 THEN {<<>>}
    ELSE LET S == PathSeqs(n - 1)
         IN  S \cup {Append(s, p) : s \in {t \in S : Len(t) = n - 1},
                                    p \in Range(Entities)}

\* the record lines one diff of /etc in state e can print: each path at most
\* once, in any order, at most MaxLines of them
DiffRecords(e) ==
    UNION {{[i \in 1..Len(ps) |-> DiffLine(cs[i], ps[i])] :
               cs \in {f \in [1..Len(ps) -> {"A", "M", "U", "D"}] :
                          \A i \in 1..Len(ps) : f[i] \in CodesFor(ps[i], e)}} :
           ps \in {q \in PathSeqs(MaxLines) :
                     \A i, j \in 1..Len(q) : q[i] = q[j] => i = j}}

\* what precedes the records on the pty: the echoed password and the sudo
\* prompt, or nothing when sudo does not prompt
Preambles == {<< <<"password">>, <<"[sudo]", SPACE, "password", SPACE, "for", SPACE, "torizon:", SPACE>> >>, <<>>}

\* stdout of the diff command: the lines, each ended by "\r\n"
DiffOutputs(e) ==
    {join(CRLF, pre \o recs) \o (IF pre \o recs = <<>> THEN <<>> ELSE <<CRLF>>) :
        pre \in Preambles, recs \in DiffRecords(e)}

\* exit statuses of a remote command: zero, or non-zero
ExitStatus == {0, 1}

\* two runs against one host, and the scratch-directory names two readings of
\* the clock give
Runs == {1, 2}
ScratchNames == {"torizon-builder-DATE_TIME", "torizon-builder-DATE_LATER"}

(***************************************************************************)
(* State                                                                   *)
(***************************************************************************)
VARIABLES
    pc,               \* the statement of isolate_user_changes the run is at
    etc,              \* remote: the entities under /etc
    tmp_dir,          \* remote: the scratch directory, <<FALSE, <<>>>> when absent,
                      \* else <<TRUE, its tree>>: <<name, kind>> entries, a kind being
                      \* "dir", "empty" (a zero-byte file) or "content"
    client,           \* the SSH session: "new", "connected" or "closed"
    sftp,             \* the SFTP channel: "none", "open" or "closed"
    stdout,           \* output of the diff command
    changes,          \* the filtered change list
    item,             \* index in changes of the next record of the loop
    config_diff,      \* remote: what `ostree admin config-diff` prints for this /etc
    finished,         \* the earlier runs against this remote, oldest first
    host_tmp,         \* two runs on one host: scratch-directory name |-> the run
                      \* that created the directory, 0 when there is none
    run_at,           \* two runs on one host: run |-> its statement, the name it
                      \* computed and the deletions its loop has left
    touched,          \* two runs on one host: the operations issued on scratch
                      \* directories, each with the directory's creator
    files_dir_to_tar, \* the member list built by the loop
    f_delete_exists,  \* the loop met a deletion
    whiteout_of,      \* index of a record |-> the marker materialized for it
    tar_command,      \* the archive command executed, <<>> before
    archive,          \* members <<name, kind>> of the archive the tar command wrote
    diff_dir,         \* local: entries <<name, kind>> of the output directory
    error,            \* the exception the run ended with, NoError otherwise
    trace             \* the operations issued, in order, each with its exit
                      \* status (1 for a non-zero status or a raised exception)

\* the state of the model of two interleaved runs
two_runs == <<host_tmp, run_at, touched>>

vars == <<pc, etc, config_diff, finished, two_runs, tmp_dir, client, sftp, stdout, changes, item, files_dir_to_tar,
          f_delete_exists, whiteout_of, tar_command, archive, diff_dir, error, trace>>

NoError == [type |-> "none", msg |-> ""]
TorizonCoreBuilderError(m) == [type |-> "TorizonCoreBuilderError", msg |-> m]
Exception(t) == [type |-> t, msg |-> ""]

\* the name of the scratch directory: '/tmp/torizon-builder-<date>_<time>'
tmp_dir_name == <<SLASH, "tmp", SLASH, "torizon-builder-DATE_TIME">>

Init ==
    /\ pc = "connect"
    /\ etc \in EtcStates
    /\ config_diff \in DiffOutputs(etc)
    /\ finished = <<>>
    /\ host_tmp = [n \in ScratchNames |-> 0]
    /\ run_at = [r \in Runs |-> [pc |-> "done", name |-> "", left |-> 0]]
    /\ touched = {}
    /\ tmp_dir = <<FALSE, <<>>>>
    /\ client = "new"
    /\ sftp = "none"
    /\ stdout = <<>>
    /\ changes = <<>>
    /\ item = 1
    /\ files_dir_to_tar = <<>>
    /\ f_delete_exists = FALSE
    /\ whiteout_of = <<>>
    /\ tar_command = <<>>
    /\ archive = <<>>
    /\ diff_dir = {}
    /\ error = NoError
    /\ trace = <<>>

\* raise e: the run ends (the outer except re-raises)
Raise(e) == pc' = "done" /\ error' = e

(***************************************************************************)
(* isolate_user_changes, statement by statement                            *)
(***************************************************************************)
\* lines 88-93: paramiko connect, which raises when the host cannot be reached
Connect ==
    /\ pc = "connect"
    /\ \/ /\ client' = "connected"
          /\ trace' = Append(trace, <<"connect", 0>>)
          /\ pc' = "config_diff"
          /\ error' = error
       \/ /\ client' = client
          /\ trace' = Append(trace, <<"connect", 1>>)
          /\ Raise(Exception("SSHException"))
    /\ UNCHANGED <<etc, two_runs, config_diff, finished, tmp_dir, sftp, stdout, changes, item, files_dir_to_tar,
                   f_delete_exists, whiteout_of, tar_command, archive, diff_dir>>

\* a variant of ignore_changes_deletion that lets deletions of ignored paths through
ignore_changes_deletion_KeepsDeleted(change) ==
    split(change)[1] = <<"D">> \/ split(change)[2] \notin Range(ignore_files)

\* lines 35-39
ignore_changes_deletion(change) == split(change)[2] \notin Range(ignore_files)

\* lines 100-104: the lines of the output after the first two, filtered
FilterChanges(out) ==
    LET output == split_sep(strip(out), CRLF)
    IN  SelectSeq(SubSeq(output, 3, Len(output)), ignore_changes_deletion)

\* a variant of no_changes that never sees an empty list
no_changes_Never(ch) == FALSE

\* line 105: `if not changes`
no_changes(ch) == ch = <<>>

\* a variant of ConfigDiff that does not look at the status of the diff
ConfigDiff_IgnoresStatus ==
    /\ pc = "config_diff"
    /\ \E status \in ExitStatus :
          LET out == config_diff IN
               /\ stdout' = out
               /\ client' = client
               /\ trace' = Append(trace, <<"sudo ostree admin config-diff", status>>)
               /\ changes' = FilterChanges(out)
               /\ IF no_changes(changes')
                  THEN Raise(TorizonCoreBuilderError(MsgNoChange))
                  ELSE pc' = "open_sftp" /\ error' = error
    /\ UNCHANGED <<etc, two_runs, config_diff, finished, tmp_dir, sftp, item, files_dir_to_tar, f_delete_exists,
                   whiteout_of, tar_command, archive, diff_dir>>

\* lines 95-106: run the diff with sudo, fail on a non-zero status, filter the
\* output, fail on an empty change list
ConfigDiff ==
    /\ pc = "config_diff"
    /\ \E status \in ExitStatus :
          IF status > 0
          THEN /\ stdout' = <<"error:", SPACE, "diff">>
               /\ client' = "closed"
               /\ trace' = trace \o << <<"sudo ostree admin config-diff", status>>,
                                      <<"client.close", 0>> >>
               /\ changes' = changes
               /\ Raise(TorizonCoreBuilderError(MsgDiff))
          ELSE LET out == config_diff IN
               /\ stdout' = out
               /\ client' = client
               /\ trace' = Append(trace, <<"sudo ostree admin config-diff", status>>)
               /\ changes' = FilterChanges(out)
               /\ IF no_changes(changes')
                  THEN Raise(TorizonCoreBuilderError(MsgNoChange))
                  ELSE pc' = "open_sftp" /\ error' = error
    /\ UNCHANGED <<etc, two_runs, config_diff, finished, tmp_dir, sftp, item, files_dir_to_tar, f_delete_exists,
                   whiteout_of, tar_command, archive, diff_dir>>

\* lines 108-109, 145-147: open the SFTP channel; without one, close and fail
OpenSftp ==
    /\ pc = "open_sftp"
    /\ \/ /\ sftp' = "open"
          /\ client' = client
          /\ trace' = Append(trace, <<"open_sftp", 0>>)
          /\ pc' = "mkdir"
          /\ error' = error
       \/ /\ sftp' = sftp
          /\ client' = "closed"
          /\ trace' = trace \o << <<"open_sftp", 1>>, <<"client.close", 0>> >>
          /\ Raise(TorizonCoreBuilderError(MsgNoSftp))
    /\ UNCHANGED <<etc, two_runs, config_diff, finished, tmp_dir, stdout, changes, item, files_dir_to_tar,
                   f_delete_exists, whiteout_of, tar_command, archive, diff_dir>>

\* a variant of MkTmpDir that goes on when the directory could not be created
MkTmpDir_IgnoresFailure ==
    /\ pc = "mkdir"
    /\ \/ /\ tmp_dir' = <<TRUE, <<>>>>
          /\ trace' = Append(trace, <<"mkdir", 0>>)
       \/ /\ tmp_dir' = tmp_dir
          /\ trace' = Append(trace, <<"mkdir", 1>>)
    /\ pc' = "loop"
    /\ error' = error
    /\ UNCHANGED <<etc, two_runs, config_diff, finished, client, sftp, stdout, changes, item, files_dir_to_tar,
                   f_delete_exists, whiteout_of, tar_command, archive, diff_dir>>

\* a variant of MkTmpDir that makes a directory of the same name in the local
\* output directory as well
MkTmpDir_AlsoLocal ==
    /\ pc = "mkdir"
    /\ \/ /\ tmp_dir' = <<TRUE, <<>>>>
          /\ diff_dir' = diff_dir \cup {<<<<"torizon-builder-DATE_TIME">>, "dir">>}
          /\ trace' = Append(trace, <<"mkdir", 0>>)
          /\ pc' = "loop"
          /\ error' = error
       \/ /\ tmp_dir' = tmp_dir
          /\ diff_dir' = diff_dir
          /\ trace' = Append(trace, <<"mkdir", 1>>)
          /\ Raise(Exception("IOError"))
    /\ UNCHANGED <<etc, two_runs, config_diff, finished, client, sftp, stdout, changes, item,
                   files_dir_to_tar, f_delete_exists, whiteout_of, tar_command, archive>>

\* lines 111-113: create the scratch directory; sftp.mkdir raises on failure
MkTmpDir ==
    /\ pc = "mkdir"
    /\ \/ /\ tmp_dir' = <<TRUE, <<>>>>
          /\ trace' = Append(trace, <<"mkdir", 0>>)
          /\ pc' = "loop"
          /\ error' = error
       \/ /\ tmp_dir' = tmp_dir
          /\ trace' = Append(trace, <<"mkdir", 1>>)
          /\ Raise(Exception("IOError"))
    /\ UNCHANGED <<etc, two_runs, config_diff, finished, client, sftp, stdout, changes, item, files_dir_to_tar,
                   f_delete_exists, whiteout_of, tar_command, archive, diff_dir>>

\* lines 46-48
check_path(p) ==
    IF rsplit1(p)[1] = p THEN <<SLASH>> ELSE <<SLASH>> \o rsplit1(p)[1] \o <<SLASH>>

\* sftp.listdir of an absolute directory name under /etc: the names directly
\* in it, or an IOError when the directory does not exist
sftp_listdir(e, name) ==
    LET d == SubSeq(name, 4, Len(name) - 1)
    IN  IF d \in e
        THEN [ok |-> TRUE, names |-> {rsplit1(q)[Len(rsplit1(q))] : q \in {r \in e : Parent(r) = d}}]
        ELSE [ok |-> FALSE, names |-> {}]

\* a variant of deleted_file_dir_to_tar that never emits the opaque marker
deleted_file_dir_to_tar_NeverOpaque(e, deleted_f_d) ==
    LET path == check_path(deleted_f_d)
    IN  IF path # <<SLASH>>
        THEN <<"etc">> \o path \o <<".wh.">> \o rsplit1(deleted_f_d)[2]
        ELSE <<"etc">> \o path \o <<".wh.">> \o deleted_f_d

\* a variant of deleted_file_dir_to_tar that puts its own separator before the
\* marker name of a root-level path
deleted_file_dir_to_tar_DoubledSeparator(e, deleted_f_d) ==
    LET path == check_path(deleted_f_d)
    IN  IF path # <<SLASH>>
        THEN IF sftp_listdir(e, <<SLASH, "etc">> \o path).names = {}
             THEN <<"etc">> \o path \o <<".wh..wh..opq">>
             ELSE <<"etc">> \o path \o <<".wh.">> \o rsplit1(deleted_f_d)[2]
        ELSE <<"etc">> \o path \o <<SLASH, ".wh.">> \o deleted_f_d

\* lines 54-65: the marker name, relative to the scratch directory
deleted_file_dir_to_tar(e, deleted_f_d) ==
    LET path == check_path(deleted_f_d)
    IN  IF path # <<SLASH>>
        THEN IF sftp_listdir(e, <<SLASH, "etc">> \o path).names = {}
             THEN <<"etc">> \o path \o <<".wh..wh..opq">>
             ELSE <<"etc">> \o path \o <<".wh.">> \o rsplit1(deleted_f_d)[2]
        ELSE <<"etc">> \o path \o <<".wh.">> \o deleted_f_d

\* the directories `mkdir -p d` creates: d and every directory above it
RECURSIVE mkdir_p(_)
mkdir_p(dir) ==
    CHOOSE made \in
        {IF Len(rsplit1(d)) = 1 THEN <<d>> ELSE Append(mkdir_p(rsplit1(d)[1]), d) :
         d \in {dir}} : TRUE

\* the names in a sequence made entries of one kind
OfKind(names, kind) == [i \in 1..Len(names) |-> <<names[i], kind>>]

\* entries added to a directory's tree: those whose name is not there yet
AddEntries(tree, new) ==
    tree \o SelectSeq(new, LAMBDA x : \A i \in 1..Len(tree) : tree[i][1] # x[1])

\* a variant of whiteouts that swallows a failing listing or marker command
\* and lets the loop go on
whiteouts_Swallowing(deleted_f_d) ==
    LET path == check_path(deleted_f_d)
        listed == path # <<SLASH>>
        d_list == sftp_listdir(etc, <<SLASH, "etc">> \o path)
        marker == deleted_file_dir_to_tar(etc, deleted_f_d)
        dirs == OfKind(mkdir_p(rsplit1(marker)[1]), "dir")
    IN  IF listed /\ ~d_list.ok
        THEN /\ trace' = Append(trace, <<"listdir", 1>>)
             /\ item' = item + 1
             /\ UNCHANGED <<pc, error, tmp_dir, whiteout_of>>
        ELSE \E status \in ExitStatus :
             /\ trace' = trace \o (IF listed THEN << <<"listdir", 0>> >> ELSE <<>>)
                               \o << <<"mkdir -p && touch", status>> >>
             /\ item' = item + 1
             /\ UNCHANGED <<pc, error>>
             /\ IF status > 0
                THEN UNCHANGED <<tmp_dir, whiteout_of>>
                ELSE /\ tmp_dir' = <<TRUE, AddEntries(tmp_dir[2], Append(dirs, <<marker, "empty">>))>>
                     /\ whiteout_of' = (item :> marker) @@ whiteout_of

\* a variant of whiteouts that issues the marker command again after a
\* non-zero status instead of raising
whiteouts_Retrying(deleted_f_d) ==
    LET path == check_path(deleted_f_d)
        listed == path # <<SLASH>>
        d_list == sftp_listdir(etc, <<SLASH, "etc">> \o path)
        marker == deleted_file_dir_to_tar(etc, deleted_f_d)
        dirs == OfKind(mkdir_p(rsplit1(marker)[1]), "dir")
    IN  IF listed /\ ~d_list.ok
        THEN /\ trace' = Append(trace, <<"listdir", 1>>)
             /\ Raise(Exception("IOError"))
             /\ UNCHANGED <<tmp_dir, whiteout_of, item>>
        ELSE \E status \in ExitStatus :
             /\ trace' = trace \o (IF listed THEN << <<"listdir", 0>> >> ELSE <<>>)
                               \o << <<"mkdir -p && touch", status>> >>
             /\ IF status > 0
                THEN UNCHANGED <<tmp_dir, whiteout_of, item, pc, error>>
                ELSE /\ tmp_dir' = <<TRUE, AddEntries(tmp_dir[2], Append(dirs, <<marker, "empty">>))>>
                     /\ whiteout_of' = (item :> marker) @@ whiteout_of
                     /\ item' = item + 1
                     /\ UNCHANGED <<pc, error>>

\* lines 51-78: materialize the marker of one deleted path in the scratch
\* directory; a failing listing or a non-zero status raises
whiteouts(deleted_f_d) ==
    LET path == check_path(deleted_f_d)
        listed == path # <<SLASH>>
        d_list == sftp_listdir(etc, <<SLASH, "etc">> \o path)
        marker == deleted_file_dir_to_tar(etc, deleted_f_d)
        dirs == OfKind(mkdir_p(rsplit1(marker)[1]), "dir")
    IN  IF listed /\ ~d_list.ok
        THEN /\ trace' = Append(trace, <<"listdir", 1>>)
             /\ Raise(Exception("IOError"))
             /\ UNCHANGED <<tmp_dir, whiteout_of, item>>
        ELSE \E status \in ExitStatus :
             /\ trace' = trace \o (IF listed THEN << <<"listdir", 0>> >> ELSE <<>>)
                               \o << <<"mkdir -p && touch", status>> >>
             /\ IF status > 0
                THEN /\ \E made \in {<<>>, dirs} :
                          tmp_dir' = <<TRUE, AddEntries(tmp_dir[2], made)>>
                     /\ Raise(TorizonCoreBuilderError(MsgWhiteout))
                     /\ UNCHANGED <<whiteout_of, item>>
                ELSE /\ tmp_dir' = <<TRUE, AddEntries(tmp_dir[2], Append(dirs, <<marker, "empty">>))>>
                     /\ whiteout_of' = (item :> marker) @@ whiteout_of
                     /\ item' = item + 1
                     /\ UNCHANGED <<pc, error>>

\* lines 118-123: one record of the change list
LoopItem ==
    /\ pc = "loop"
    /\ item <= Len(changes)
    /\ IF split(changes[item])[1] # <<"D">>
       THEN /\ files_dir_to_tar' =
                   files_dir_to_tar \o <<SLASH, "etc", SLASH>> \o split(changes[item])[2] \o <<SPACE>>
            /\ item' = item + 1
            /\ UNCHANGED <<pc, error, tmp_dir, f_delete_exists, whiteout_of, trace>>
       ELSE /\ f_delete_exists' = TRUE
            /\ whiteouts(split(changes[item])[2])
            /\ UNCHANGED files_dir_to_tar
    /\ UNCHANGED <<etc, two_runs, config_diff, finished, client, sftp, stdout, changes, tar_command, archive, diff_dir>>

\* a variant of remove_tmp_dir that removes nothing
remove_tmp_dir_Keeps(status, dir) == dir

\* lines 42-43: `rm -rf` of the scratch directory; the status is not looked at.
\* The directory is gone when rm exits with zero and is still there otherwise.
remove_tmp_dir(status, dir) == IF status = 0 THEN <<FALSE, <<>>>> ELSE dir

\* a variant of MakeTarCommand that archives only the scratch tree when there
\* are deletions
MakeTarCommand_TreeOnly(deletes, files) ==
    IF deletes
    THEN [exclude |-> {TAR_NAME},
          file |-> tmp_dir_name \o <<SLASH, TAR_NAME>>,
          directory |-> tmp_dir_name,
          members |-> << <<".">> >>]
    ELSE [exclude |-> {},
          file |-> tmp_dir_name \o <<SLASH, TAR_NAME>>,
          directory |-> <<>>,
          members |-> split(files)]

\* a variant of MakeTarCommand that bases the archive at the scratch directory
\* whether or not there are deletions
MakeTarCommand_AlwaysBase(deletes, files) ==
    [exclude |-> {TAR_NAME},
     file |-> tmp_dir_name \o <<SLASH, TAR_NAME>>,
     directory |-> tmp_dir_name,
     members |-> << <<".">> >> \o split(files)]

\* a variant of MakeTarCommand that leaves the scratch base out of the members
MakeTarCommand_NoBase(deletes, files) ==
    [exclude |-> IF deletes THEN {TAR_NAME} ELSE {},
     file |-> tmp_dir_name \o <<SLASH, TAR_NAME>>,
     directory |-> IF deletes THEN tmp_dir_name ELSE <<>>,
     members |-> split(files)]

\* a variant of MakeTarCommand that writes the archive file into /etc
MakeTarCommand_IntoEtc(deletes, files) ==
    [exclude |-> IF deletes THEN {TAR_NAME} ELSE {},
     file |-> <<SLASH, "etc", SLASH, TAR_NAME>>,
     directory |-> IF deletes THEN tmp_dir_name ELSE <<>>,
     members |-> (IF deletes THEN << <<".">> >> ELSE <<>>) \o split(files)]

\* lines 125-131: the archive command
MakeTarCommand(deletes, files) ==
    IF deletes
    THEN [exclude |-> {TAR_NAME},
          file |-> tmp_dir_name \o <<SLASH, TAR_NAME>>,
          directory |-> tmp_dir_name,
          members |-> << <<".">> >> \o split(files)]
    ELSE [exclude |-> {},
          file |-> tmp_dir_name \o <<SLASH, TAR_NAME>>,
          directory |-> <<>>,
          members |-> split(files)]

\* tar --exclude: a name is left out when one of its components is a pattern
Excluded(cmd, name) == \E c \in Range(split_sep(name, SLASH)) : \E x \in cmd.exclude : c = <<x>>

\* what tar archives for one member: for "." the scratch tree (with the archive
\* being written in it), for /etc/<p> the entity p and everything below it,
\* stored without the leading "/"; excluded names are left out
TarMember(cmd, e, tree, m) ==
    IF m = <<".">>
    THEN << <<<<".">>, "dir">> >> \o
         SelectSeq([i \in 1..Len(tree) + 1 |->
                        IF i <= Len(tree) THEN <<<<".", SLASH>> \o tree[i][1], tree[i][2]>>
                        ELSE <<<<".", SLASH, TAR_NAME>>, "content">>],
                   LAMBDA n : ~Excluded(cmd, n[1]))
    ELSE LET p == SubSeq(m, 4, Len(m))
             below == SelectSeq(Entities,
                         LAMBDA q : q \in e /\ Len(q) >= Len(p) /\ SubSeq(q, 1, Len(p)) = p
                                           /\ (Len(q) > Len(p) => q[Len(p) + 1] = SLASH))
         IN  SelectSeq([i \in 1..Len(below) |->
                            <<<<"etc", SLASH>> \o below[i],
                              IF IsDir(below[i]) THEN "dir" ELSE "content">>],
                       LAMBDA n : ~Excluded(cmd, n[1]))

\* the member names of the archive the command writes
RECURSIVE TarCreate(_, _, _, _)
TarCreate(cmd, e, tree, ms) ==
    IF ms = <<>> THEN <<>>
    ELSE TarMember(cmd, e, tree, Head(ms)) \o TarCreate(cmd, e, tree, Tail(ms))

\* lines 125-138: build the archive with sudo; on a non-zero status remove the
\* scratch directory, close both channels and fail
MakeTar ==
    /\ pc = "loop"
    /\ item > Len(changes)
    /\ tar_command' = MakeTarCommand(f_delete_exists, files_dir_to_tar)
    /\ \E status \in ExitStatus :
          IF status > 0
          THEN /\ \E rm \in ExitStatus :
                    /\ tmp_dir' = remove_tmp_dir(rm, tmp_dir)
                    /\ trace' = trace \o << <<"sudo tar", status>>, <<"rm -rf", rm>>,
                                           <<"sftp.close", 0>>, <<"client.close", 0>> >>
               /\ sftp' = "closed"
               /\ client' = "closed"
               /\ archive' = archive
               /\ Raise(TorizonCoreBuilderError(MsgTar))
          ELSE /\ archive' = TarCreate(tar_command', etc, tmp_dir[2], tar_command'.members)
               /\ tmp_dir' = <<TRUE, AddEntries(tmp_dir[2], << <<<<TAR_NAME>>, "content">> >>)>>
               /\ trace' = Append(trace, <<"sudo tar", status>>)
               /\ pc' = "get"
               /\ UNCHANGED <<sftp, client, error>>
    /\ UNCHANGED <<etc, two_runs, config_diff, finished, stdout, changes, item, files_dir_to_tar, f_delete_exists,
                   whiteout_of, diff_dir>>

\* a variant of GetTar that leaves both channels open after the download
GetTar_LeavesOpen ==
    /\ pc = "get"
    /\ \/ /\ \E partial \in BOOLEAN :
                diff_dir' = IF partial THEN diff_dir \cup {<<<<TAR_NAME>>, "content">>}
                            ELSE diff_dir
          /\ trace' = Append(trace, <<"get", 1>>)
          /\ Raise(Exception("IOError"))
          /\ UNCHANGED tmp_dir
       \/ /\ diff_dir' = diff_dir \cup {<<<<TAR_NAME>>, "content">>}
          /\ \E rm \in ExitStatus :
               /\ tmp_dir' = remove_tmp_dir(rm, tmp_dir)
               /\ trace' = trace \o << <<"get", 0>>, <<"rm -rf", rm>> >>
          /\ pc' = "extract"
          /\ error' = error
    /\ UNCHANGED <<etc, two_runs, config_diff, finished, sftp, client, stdout, changes, item, files_dir_to_tar,
                   f_delete_exists, whiteout_of, tar_command, archive>>

\* a variant of GetTar that closes both channels before removing the scratch
\* directory
GetTar_ClosesFirst ==
    /\ pc = "get"
    /\ \/ /\ \E partial \in BOOLEAN :
                diff_dir' = IF partial THEN diff_dir \cup {<<<<TAR_NAME>>, "content">>}
                            ELSE diff_dir
          /\ trace' = Append(trace, <<"get", 1>>)
          /\ Raise(Exception("IOError"))
          /\ UNCHANGED <<tmp_dir, sftp, client>>
       \/ /\ diff_dir' = diff_dir \cup {<<<<TAR_NAME>>, "content">>}
          /\ \E rm \in ExitStatus :
               /\ tmp_dir' = remove_tmp_dir(rm, tmp_dir)
               /\ trace' = trace \o << <<"get", 0>>, <<"sftp.close", 0>>,
                                      <<"client.close", 0>>, <<"rm -rf", rm>> >>
          /\ sftp' = "closed"
          /\ client' = "closed"
          /\ pc' = "extract"
          /\ error' = error
    /\ UNCHANGED <<etc, two_runs, config_diff, finished, stdout, changes, item, files_dir_to_tar,
                   f_delete_exists, whiteout_of, tar_command, archive>>

\* lines 141-149: download the archive (sftp.get raises on failure), remove the
\* scratch directory, close both channels
GetTar ==
    /\ pc = "get"
    /\ \/ /\ \E partial \in BOOLEAN :
                diff_dir' = IF partial THEN diff_dir \cup {<<<<TAR_NAME>>, "content">>}
                            ELSE diff_dir
          /\ trace' = Append(trace, <<"get", 1>>)
          /\ Raise(Exception("IOError"))
          /\ UNCHANGED <<tmp_dir, sftp, client>>
       \/ /\ diff_dir' = diff_dir \cup {<<<<TAR_NAME>>, "content">>}
          /\ \E rm \in ExitStatus :
               /\ tmp_dir' = remove_tmp_dir(rm, tmp_dir)
               /\ trace' = trace \o << <<"get", 0>>, <<"rm -rf", rm>>,
                                      <<"sftp.close", 0>>, <<"client.close", 0>> >>
          /\ sftp' = "closed"
          /\ client' = "closed"
          /\ pc' = "extract"
          /\ error' = error
    /\ UNCHANGED <<etc, two_runs, config_diff, finished, stdout, changes, item, files_dir_to_tar, f_delete_exists,
                   whiteout_of, tar_command, archive>>

\* the local entries tar -x creates for archive members: a leading "./" is
\* dropped, "." is the output directory itself, missing parent directories
\* are made
Extracted(members) ==
    UNION {LET m == members[i][1]
               n == IF Len(m) >= 2 /\ SubSeq(m, 1, 2) = <<".", SLASH>>
                    THEN SubSeq(m, 3, Len(m)) ELSE m
           IN  IF n = <<".">> THEN {}
               ELSE {<<n, members[i][2]>>} \cup
                    (IF Len(rsplit1(n)) = 1 THEN {}
                     ELSE Range(OfKind(mkdir_p(rsplit1(n)[1]), "dir"))) :
           i \in 1..Len(members)}

\* lines 152-155: extract the archive into the output directory; a failing tar
\* raises and leaves what it had extracted
ExtractTar ==
    /\ pc = "extract"
    /\ \/ /\ diff_dir' = diff_dir \cup Extracted(archive)
          /\ trace' = Append(trace, <<"tar -x", 0>>)
          /\ pc' = "rm_tar"
          /\ error' = error
       \/ /\ \E k \in 0..Len(archive) : diff_dir' = diff_dir \cup Extracted(SubSeq(archive, 1, k))
          /\ trace' = Append(trace, <<"tar -x", 1>>)
          /\ Raise(Exception("CalledProcessError"))
    /\ UNCHANGED <<etc, two_runs, config_diff, finished, tmp_dir, client, sftp, stdout, changes, item, files_dir_to_tar,
                   f_delete_exists, whiteout_of, tar_command, archive>>

\* lines 156-157: delete the downloaded archive
RmTar ==
    /\ pc = "rm_tar"
    /\ \/ /\ diff_dir' = diff_dir \ {<<<<TAR_NAME>>, "content">>}
          /\ trace' = Append(trace, <<"rm", 0>>)
          /\ pc' = "done"
          /\ error' = error
       \/ /\ diff_dir' = diff_dir
          /\ trace' = Append(trace, <<"rm", 1>>)
          /\ Raise(Exception("CalledProcessError"))
    /\ UNCHANGED <<etc, two_runs, config_diff, finished, tmp_dir, client, sftp, stdout, changes, item, files_dir_to_tar,
                   f_delete_exists, whiteout_of, tar_command, archive>>

Next ==
    \/ Connect
    \/ ConfigDiff
    \/ OpenSftp
    \/ MkTmpDir
    \/ LoopItem
    \/ MakeTar
    \/ GetTar
    \/ ExtractTar
    \/ RmTar

Spec == Init /\ [][Next]_vars

(***************************************************************************)
(* Vocabulary of the properties                                            *)
(***************************************************************************)
Done == pc = "done"

\* operation op was issued / was issued and ended with status st
Issued(op) == \E i \in 1..Len(trace) : trace[i][1] = op
Did(op, st) == \E i \in 1..Len(trace) : trace[i] = <<op, st>>

\* the status letter and the path of a record line "<code>  <path>"
RecordCode(line) == line[1]
RecordPath(line) == SubSeq(line, 4, Len(line))

\* the last component of a path
BaseName(p) == SubSeq(p, Len(Parent(p)) + (IF Parent(p) = <<>> THEN 1 ELSE 2), Len(p))

\* the entities directly in directory d of /etc (<<>> is /etc itself)
Siblings(d) == {q \in etc : Parent(q) = d}

\* the names of the entries of the local output directory
LocalNames == {x[1] : x \in diff_dir}

(***************************************************************************)
(* Consecutive runs against a remote whose diff filters to an empty list:  *)
(* after a run has ended (the connection or the diff failed, or the list   *)
(* was empty) the operator calls isolate_user_changes again.  The remote   *)
(* keeps its state, the new call starts from fresh locals.                 *)
(***************************************************************************)
Restart ==
    /\ pc = "done"
    /\ FilterChanges(config_diff) = <<>>
    /\ Len(finished) + 1 < MaxRuns
    /\ finished' = Append(finished,
                          [got_diff |-> Did("sudo ostree admin config-diff", 0),
                           error |-> error,
                           remote |-> <<etc, config_diff, tmp_dir>>])
    /\ pc' = "connect"
    /\ client' = "new"
    /\ sftp' = "none"
    /\ stdout' = <<>>
    /\ item' = 1
    /\ files_dir_to_tar' = <<>>
    /\ f_delete_exists' = FALSE
    /\ whiteout_of' = <<>>
    /\ tar_command' = <<>>
    /\ archive' = <<>>
    /\ error' = NoError
    /\ trace' = <<>>
    /\ UNCHANGED <<etc, two_runs, config_diff, tmp_dir, changes, diff_dir>>

NextRerun ==
    \/ Next
    \/ Restart

SpecRerun == Init /\ [][NextRerun]_vars

(***************************************************************************)
(* C1: every run that created the scratch directory has removed it from    *)
(* the remote when the run ends, whatever the outcome.                     *)
(* Violated: a failing whiteout or download ends the run with the          *)
(* directory still on the remote.                                          *)
(***************************************************************************)
C1_ScratchRemovedWhenRunEnds == (Done /\ Did("mkdir", 0)) => ~tmp_dir[1]

(***************************************************************************)
(* C2: every run that established the connection has closed the session    *)
(* when the run ends, on every exit path.                                  *)
(* Violated: an empty change list, a failing mkdir, whiteout or download   *)
(* end the run with the session open.                                      *)
(***************************************************************************)
C2_SessionClosedWhenRunEnds == (Done /\ Did("connect", 0)) => client = "closed"

(***************************************************************************)
(* C3: when the archive command exits non-zero, the run removes the scratch*)
(* directory, then closes the session, then ends with the domain error; no *)
(* download, no extraction, nothing written locally.                       *)
(***************************************************************************)
C3_StepsAfterTarFailure ==
    Did("sudo tar", 1) =>
        /\ Done
        /\ error = TorizonCoreBuilderError(MsgTar)
        /\ Len(trace) >= 4
        /\ [i \in 1..4 |-> trace[Len(trace) - 4 + i][1]]
               = <<"sudo tar", "rm -rf", "sftp.close", "client.close">>
        /\ client = "closed"
        /\ ~Issued("get")
        /\ ~Issued("tar -x")
        /\ diff_dir = {}

C4_WhiteoutFailureAborts ==
    (Did("listdir", 1) \/ Did("mkdir -p && touch", 1)) =>
        /\ Done
        /\ error # NoError
        /\ trace[Len(trace)] \in {<<"listdir", 1>>, <<"mkdir -p && touch", 1>>}
        /\ ~Issued("sudo tar")
        /\ tar_command = <<>>
        /\ archive = <<>>
        /\ item \in 1..Len(changes)
        /\ RecordCode(changes[item]) = "D"
        /\ \A j \in item..Len(changes) :
              /\ j \notin DOMAIN whiteout_of
              /\ (<<SLASH, "etc", SLASH>> \o RecordPath(changes[j]))
                     \notin Range(split(files_dir_to_tar))

\* C4 witness: a marker command failed with a record still to come and a
\* partly built tree in the scratch directory
C4_Witness ==
    /\ Done
    /\ Did("mkdir -p && touch", 1)
    /\ item < Len(changes)
    /\ tmp_dir[2] # <<>>

OutputLines == split_sep(strip(stdout), CRLF)

IgnoredLine(line) ==
    \E c \in {"A", "M", "U", "D"} : \E p \in Range(ignore_files) : line = DiffLine(c, p)

C6_FilteredChangeList ==
    Did("sudo ostree admin config-diff", 0) =>
        LET L == SubSeq(OutputLines, 3, Len(OutputLines))
            K == {i \in 1..Len(L) : ~IgnoredLine(L[i])}
        IN  /\ Len(changes) = Cardinality(K)
            /\ \E f \in [1..Len(changes) -> K] :
                  /\ \A a, b \in 1..Len(changes) : a < b => f[a] < f[b]
                  /\ \A j \in 1..Len(changes) : changes[j] = L[f[j]]

\* C6 witness: a deletion of an ignored path stands between two lines that
\* are kept
C6_Witness ==
    /\ Did("sudo ostree admin config-diff", 0)
    /\ Len(OutputLines) = 5
    /\ RecordCode(OutputLines[4]) = "D"
    /\ IgnoredLine(OutputLines[4])
    /\ changes = <<OutputLines[3], OutputLines[5]>>

(***************************************************************************)
(* C7: after any run the local output directory holds no entry for a path  *)
(* of the ignore set: neither its content nor a whiteout marker named      *)
(* after it.                                                               *)
(* Violated: a reported directory is archived with everything below it,    *)
(* ignored files included.                                                 *)
(***************************************************************************)
C7_NoIgnoredPathInOutput ==
    Done =>
        \A p \in Range(ignore_files) :
            /\ (<<"etc", SLASH>> \o p) \notin LocalNames
            /\ (<<"etc">> \o check_path(p) \o <<".wh.">> \o BaseName(p)) \notin LocalNames

(***************************************************************************)
(* C8: when the diff succeeds and the filtered change list is empty, the   *)
(* run ends with the 'no changes' error, before the scratch directory is   *)
(* created: no whiteout, archive, download or extraction step runs.        *)
(***************************************************************************)
C8_EmptyListIsNoChanges ==
    (Did("sudo ostree admin config-diff", 0) /\ changes = <<>>) =>
        /\ Done
        /\ error = TorizonCoreBuilderError(MsgNoChange)
        /\ trace = << <<"connect", 0>>, <<"sudo ostree admin config-diff", 0>> >>
        /\ tmp_dir = <<FALSE, <<>>>>
        /\ tar_command = <<>>
        /\ archive = <<>>
        /\ diff_dir = {}

\* C8 witness: the diff reported lines and every one was filtered out
C8_Witness ==
    /\ Done
    /\ Did("sudo ostree admin config-diff", 0)
    /\ changes = <<>>
    /\ Len(OutputLines) >= 3

(***************************************************************************)
(* C9: for a Deleted record <dir>/<name> with a non-empty <dir>, the       *)
(* marker staged in the scratch directory is etc/<dir>/.wh.<name> when     *)
(* the remote <dir> still has entries and etc/<dir>/.wh..wh..opq when it   *)
(* has none; the marker is an empty file under directories that mirror     *)
(* <dir>.                                                                  *)
(***************************************************************************)
C9_MarkerInSubdirectory ==
    \A i \in DOMAIN whiteout_of :
        LET p == RecordPath(changes[i])
            d == Parent(p)
            expected == <<"etc", SLASH>> \o d \o <<SLASH>> \o
                        (IF Siblings(d) # {} THEN <<".wh.">> \o BaseName(p)
                         ELSE <<".wh..wh..opq">>)
        IN  d # <<>> =>
               /\ whiteout_of[i] = expected
               /\ pc \in {"loop", "get"} =>
                     /\ <<expected, "empty">> \in Range(tmp_dir[2])
                     /\ <<<<"etc">>, "dir">> \in Range(tmp_dir[2])
                     /\ <<<<"etc", SLASH>> \o d, "dir">> \in Range(tmp_dir[2])

\* C9 witness: a marker was staged for a deletion in a directory that still
\* has entries
C9_Witness ==
    /\ pc = "get"
    /\ \E i \in DOMAIN whiteout_of :
          /\ Parent(RecordPath(changes[i])) # <<>>
          /\ Siblings(Parent(RecordPath(changes[i]))) # {}

(***************************************************************************)
(* C10: for a Deleted record at the top of the configuration root, with no *)
(* other entry left directly under the root, the marker is the opaque      *)
(* marker .wh..wh..opq at the translated root.                             *)
(* Violated: the root is never listed, the marker is always .wh.<name>.    *)
(***************************************************************************)
C10_OpaqueMarkerAtRoot ==
    \A i \in DOMAIN whiteout_of :
        (Parent(RecordPath(changes[i])) = <<>> /\ Siblings(<<>>) = {}) =>
            whiteout_of[i] = <<"etc", SLASH, ".wh..wh..opq">>

(***************************************************************************)
(* C11: for a Deleted record whose path P has no directory part, the       *)
(* marker is .wh.<P> directly at the top of the translated root: its name  *)
(* is etc, one separator, .wh.<P>, with no empty component and no doubled  *)
(* separator, and it is staged as an empty file in the scratch directory   *)
(* under the directory etc alone.                                          *)
(***************************************************************************)
C11_MarkerAtTopOfRoot ==
    \A i \in DOMAIN whiteout_of :
        LET p == RecordPath(changes[i])
            marker == whiteout_of[i]
        IN  Parent(p) = <<>> =>
               /\ marker = <<"etc", SLASH, ".wh.">> \o p
               /\ \A k \in 1..(Len(marker) - 1) : ~(marker[k] = SLASH /\ marker[k + 1] = SLASH)
               /\ split_sep(marker, SLASH) = << <<"etc">>, <<".wh.">> \o p >>
               /\ mkdir_p(rsplit1(marker)[1]) = << <<"etc">> >>
               /\ pc \in {"loop", "get"} =>
                     /\ <<marker, "empty">> \in Range(tmp_dir[2])
                     /\ <<<<"etc">>, "dir">> \in Range(tmp_dir[2])

\* C11 witness: a marker was staged for a deleted root-level path
C11_Witness ==
    /\ pc = "get"
    /\ \E i \in DOMAIN whiteout_of : Parent(RecordPath(changes[i])) = <<>>

\* the change list has a Deleted record
HasDeletion == \E i \in 1..Len(changes) : RecordCode(changes[i]) = "D"

\* the absolute paths of the Added/Modified records, in the order of the list
ContentPaths ==
    LET kept == SelectSeq(changes, LAMBDA line : RecordCode(line) # "D")
    IN  [i \in 1..Len(kept) |-> <<SLASH, "etc", SLASH>> \o RecordPath(kept[i])]

(***************************************************************************)
(* C12: the archive command has two shapes, chosen by the presence of a    *)
(* Deleted record.  With a deletion it is based at the scratch directory   *)
(* (member ".", the archive's own file name excluded) and every            *)
(* Added/Modified path follows as a further member.  Without one its       *)
(* members are exactly the Added/Modified paths and the scratch base is    *)
(* no member.  In both shapes the archive file is written inside the       *)
(* scratch directory.                                                      *)
(***************************************************************************)
C12_ArchiveCommandShapes ==
    tar_command # <<>> =>
        /\ tar_command.file = tmp_dir_name \o <<SLASH, TAR_NAME>>
        /\ HasDeletion =>
              /\ tar_command.directory = tmp_dir_name
              /\ tar_command.exclude = {TAR_NAME}
              /\ tar_command.members = << <<".">> >> \o ContentPaths
              /\ pc = "get" =>
                    /\ \A k \in 1..Len(tmp_dir[2]) :
                          tmp_dir[2][k][1] # <<TAR_NAME>> =>
                             <<<<".", SLASH>> \o tmp_dir[2][k][1], tmp_dir[2][k][2]>>
                                 \in Range(archive)
                    /\ \A k \in 1..Len(archive) : archive[k][1] # <<".", SLASH, TAR_NAME>>
        /\ ~HasDeletion =>
              /\ tar_command.directory = <<>>
              /\ tar_command.exclude = {}
              /\ tar_command.members = ContentPaths
              /\ <<".">> \notin Range(tar_command.members)
              /\ \A k \in 1..Len(archive) : archive[k][1][1] # "."
        /\ pc = "get" => <<<<TAR_NAME>>, "content">> \in Range(tmp_dir[2])

\* C12 witness: the archive was built with a deletion and an Added/Modified path
C12_Witness ==
    /\ pc = "get"
    /\ HasDeletion
    /\ ContentPaths # <<>>

\* the run returned without raising
Success == Done /\ error = NoError

\* the directories above a relative name
Ancestors(n) == IF Len(rsplit1(n)) = 1 THEN {} ELSE Range(mkdir_p(rsplit1(n)[1]))

\* the local names of the Added/Modified paths and of the markers staged
RealNames == {<<"etc", SLASH>> \o RecordPath(changes[i]) :
                 i \in {j \in 1..Len(changes) : RecordCode(changes[j]) # "D"}}
MarkerNames == {whiteout_of[i] : i \in DOMAIN whiteout_of}

(***************************************************************************)
(* C13: a successful run leaves in the local output directory exactly the  *)
(* Added/Modified paths as real entries and the staged markers as empty    *)
(* files, at names mirroring the configuration root (under the directories *)
(* those names need), and nothing else; without a marker there is no       *)
(* top-level entry for the scratch directory's own ".".                    *)
(* Violated: a directory member brings entries that are in no record, and  *)
(* with a deletion a path with a component isolated_changes.tar is left    *)
(* out.                                                                    *)
(***************************************************************************)
C13_ExactlyChangesAndMarkers ==
    Success =>
        /\ LocalNames = RealNames \cup MarkerNames \cup
                        UNION {Ancestors(n) : n \in RealNames \cup MarkerNames}
        /\ \A x \in diff_dir :
              /\ x[1] \in MarkerNames => x[2] = "empty"
              /\ x[1] \in RealNames => x[2] # "empty"
        /\ MarkerNames = {} => <<".">> \notin LocalNames

\* the names of the operations issued, in order
TraceOps == [i \in 1..Len(trace) |-> trace[i][1]]

\* the operations that encode the deletions of a change list: for each Deleted
\* record, in order, the listing of its directory (when it has one) and the
\* marker command
RECURSIVE EncodeOps(_)
EncodeOps(ch) ==
    IF ch = <<>> THEN <<>>
    ELSE (IF RecordCode(Head(ch)) # "D" THEN <<>>
          ELSE IF Parent(RecordPath(Head(ch))) = <<>> THEN <<"mkdir -p && touch">>
          ELSE <<"listdir", "mkdir -p && touch">>) \o EncodeOps(Tail(ch))

(***************************************************************************)
(* C14: in every successful run the steps occur once each in this order:   *)
(* connect, fetch the diff (and filter it), open the transfer channel and  *)
(* create the scratch directory, encode every deletion, build the archive, *)
(* download it, remove the scratch directory, disconnect, extract locally, *)
(* delete the local intermediate archive.  Extraction starts only after    *)
(* the session is closed, and the intermediate archive is absent from the  *)
(* output directory at the end.                                            *)
(***************************************************************************)
C14_StepsOfSuccessfulRun ==
    /\ Success =>
          /\ TraceOps = <<"connect", "sudo ostree admin config-diff", "open_sftp", "mkdir">>
                        \o EncodeOps(changes)
                        \o <<"sudo tar", "get", "rm -rf", "sftp.close", "client.close",
                             "tar -x", "rm">>
          /\ \A i \in 1..Len(trace) : trace[i][1] # "rm -rf" => trace[i][2] = 0
          /\ changes = FilterChanges(stdout)
          /\ item = Len(changes) + 1
          /\ <<TAR_NAME>> \notin LocalNames
    /\ pc \in {"extract", "rm_tar"} => (client = "closed" /\ sftp = "closed")
    /\ Issued("tar -x") => (client = "closed" /\ sftp = "closed")

\* C14 witness: a successful run over a list with a deletion and a record to
\* archive
C14_Witness ==
    /\ Success
    /\ HasDeletion
    /\ ContentPaths # <<>>

(***************************************************************************)
(* C15: whenever a run ends with a transfer failure (the download fails)   *)
(* or an extraction failure, the remote scratch directory has already been *)
(* removed when the failure is raised.                                     *)
(* Violated: a failing download raises before the removal is issued.       *)
(***************************************************************************)
C15_ScratchRemovedBeforeLateFailure ==
    (Done /\ (Did("get", 1) \/ Did("tar -x", 1))) => ~tmp_dir[1]

\* the commands run on the remote through exec_command
RemoteCommands ==
    {"sudo ostree admin config-diff", "mkdir -p && touch", "sudo tar", "rm -rf"}

(***************************************************************************)
(* C16: a remote command that exits with a non-zero status makes the run   *)
(* end in failure, for the diff, the marker command, the archive command   *)
(* and the removal of the scratch directory alike.                         *)
(* Violated: the status of the removal is not looked at, a run whose       *)
(* rm -rf failed goes on and returns normally.                             *)
(***************************************************************************)
C16_NonZeroStatusFailsRun ==
    \A i \in 1..Len(trace) :
        (trace[i][1] \in RemoteCommands /\ trace[i][2] > 0) =>
            (Done /\ error # NoError)

(***************************************************************************)
(* C17: when the diff command exits with a non-zero status, the run closes *)
(* the session and ends with the diff's command-failure error: the output  *)
(* is not filtered, no scratch directory is created, no further remote     *)
(* command and no local step is executed.                                  *)
(***************************************************************************)
C17_DiffFailureEndsRun ==
    Did("sudo ostree admin config-diff", 1) =>
        /\ Done
        /\ error = TorizonCoreBuilderError(MsgDiff)
        /\ client = "closed"
        /\ trace = << <<"connect", 0>>, <<"sudo ostree admin config-diff", 1>>,
                      <<"client.close", 0>> >>
        /\ changes = <<>>
        /\ sftp = "none"
        /\ tmp_dir = <<FALSE, <<>>>>
        /\ whiteout_of = <<>>
        /\ tar_command = <<>>
        /\ archive = <<>>
        /\ diff_dir = {}

\* C17 witness: the diff command exited with a non-zero status
C17_Witness == Done /\ Did("sudo ostree admin config-diff", 1)

(***************************************************************************)
(* C18: the outcome 'filtered change list is empty' is raised as an error  *)
(* kind different from the kind raised for command failures (diff, marker, *)
(* archive) and for transport failures, so that a caller can tell them     *)
(* apart by the kind and not only by the message.                          *)
(* Violated: the empty list and the command failures all raise             *)
(* TorizonCoreBuilderError, with different messages.                       *)
(***************************************************************************)
C18_NoChangesIsItsOwnKind ==
    (Done /\ Did("sudo ostree admin config-diff", 0) /\ changes = <<>>) =>
        /\ error.type # "none"
        /\ \A m \in {MsgDiff, MsgWhiteout, MsgTar, MsgNoSftp} :
              error.type # TorizonCoreBuilderError(m).type
        /\ error.type \notin {Exception(t).type : t \in {"SSHException", "IOError", "CalledProcessError"}}

(***************************************************************************)
(* C19: once a run against a remote state obtained the diff and filtered   *)
(* it to an empty list, every run against that state that obtains the diff *)
(* ends with the 'no changes' error, however many runs there are: such a   *)
(* run leaves the remote as it found it (configuration, diff and no        *)
(* scratch directory) and writes nothing locally.                          *)
(***************************************************************************)
C19_NoChangesIsRepeatable ==
    (\E k \in 1..Len(finished) : finished[k].got_diff) =>
        /\ \A k \in 1..Len(finished) :
              /\ finished[k].got_diff => finished[k].error = TorizonCoreBuilderError(MsgNoChange)
              /\ finished[k].remote = <<etc, config_diff, <<FALSE, <<>>>> >>
        /\ Did("sudo ostree admin config-diff", 0) =>
              /\ changes = <<>>
              /\ Done
              /\ error = TorizonCoreBuilderError(MsgNoChange)
        /\ tmp_dir = <<FALSE, <<>>>>
        /\ diff_dir = {}

\* C19 witness: the third consecutive run ended on the empty change list, as
\* the two before it
C19_Witness ==
    /\ Len(finished) = 2
    /\ finished[1].got_diff
    /\ finished[2].got_diff
    /\ Done
    /\ Did("sudo ostree admin config-diff", 0)
    /\ Len(OutputLines) >= 3

\* the listings and marker commands issued so far
EncodeOpsIssued == SelectSeq(TraceOps, LAMBDA op : op \in {"listdir", "mkdir -p && touch"})

\* no step is taken twice: every operation outside the loop is issued at most
\* once, the loop issues for each record its own operations once and in the
\* order of the list, and after a failing operation only clean-up follows
NoRetry ==
    /\ \A i, j \in 1..Len(trace) :
          (i < j /\ trace[i][1] = trace[j][1]) =>
              trace[i][1] \in {"listdir", "mkdir -p && touch"}
    /\ Len(EncodeOpsIssued) <= Len(EncodeOps(changes))
    /\ EncodeOpsIssued = SubSeq(EncodeOps(changes), 1, Len(EncodeOpsIssued))
    /\ item <= Len(changes) + 1
    /\ \A i \in 1..Len(trace) :
          (trace[i][2] > 0 /\ trace[i][1] # "rm -rf") =>
              \A j \in (i + 1)..Len(trace) :
                  trace[j][1] \in {"rm -rf", "sftp.close", "client.close"}

\* an upper bound on the steps a run still takes: the statements left after
\* the current one, and in the loop the records left
StepsLeft ==
    LET stage == [connect |-> 8, config_diff |-> 7, open_sftp |-> 6, mkdir |-> 5,
                  loop |-> 4, get |-> 3, extract |-> 2, rm_tar |-> 1, done |-> 0]
    IN  stage[pc] * (MaxLines + 2) + (IF pc = "loop" THEN Len(changes) + 1 - item ELSE 0)

(***************************************************************************)
(* C20: when every remote command, listing and transfer returns, every run *)
(* reaches a terminal state, which is either full success (the output      *)
(* extracted, the intermediate archive deleted) or a raised error: before  *)
(* the terminal state a step can always be taken, and every step brings    *)
(* the run nearer to it (the steps left decrease and are never negative).  *)
(* The loop processes each record once and no step is retried.             *)
(***************************************************************************)
C20_RunTerminates ==
    /\ [](Done \/ ENABLED Next)
    /\ [](StepsLeft >= 0 /\ (Done <=> StepsLeft = 0))
    /\ [][StepsLeft' < StepsLeft]_vars
    /\ [](Done => \/ error # NoError
                  \/ /\ Did("tar -x", 0)
                     /\ Did("rm", 0)
                     /\ item = Len(changes) + 1
                     /\ <<TAR_NAME>> \notin LocalNames)
    /\ []NoRetry

\* C20 witness: a run over a list of several records returned after the loop
\* had gone through all of them
C20_Witness ==
    /\ Success
    /\ Len(changes) >= 2
    /\ item = Len(changes) + 1
    /\ Len(EncodeOpsIssued) >= 2

\* the operations that go over the SSH session: commands, listings, transfers
RemoteOps ==
    RemoteCommands \cup {"open_sftp", "mkdir", "listdir", "get"}

(***************************************************************************)
(* C21: in every run, whatever its outcome, the removal of the scratch     *)
(* directory is issued before the session is disconnected, and no remote   *)
(* operation (command, listing, transfer) is issued once the session or    *)
(* the transfer channel has been closed.                                   *)
(***************************************************************************)
C21_RemovalBeforeDisconnect ==
    \A i, j \in 1..Len(trace) :
        i < j =>
           /\ trace[i][1] \in {"sftp.close", "client.close"} => trace[j][1] \notin RemoteOps
           /\ trace[i][1] = "client.close" => trace[j][1] \in {"tar -x", "rm"}
           /\ trace[j][1] = "rm -rf" => trace[i][1] \notin {"sftp.close", "client.close"}

\* C21 witness: the scratch directory was removed and the session closed
C21_Witness ==
    /\ Done
    /\ Did("rm -rf", 0)
    /\ Did("client.close", 0)
    /\ Did("sftp.close", 0)

(***************************************************************************)
(* C22: in every run the removal of the scratch directory is issued at     *)
(* most once, and only after this run has created the directory; a run     *)
(* that created none never issues it.                                      *)
(***************************************************************************)
C22_RemovalAtMostOnce ==
    /\ Cardinality({i \in 1..Len(trace) : trace[i][1] = "rm -rf"}) <= 1
    /\ \A j \in 1..Len(trace) :
          trace[j][1] = "rm -rf" => \E i \in 1..(j - 1) : trace[i] = <<"mkdir", 0>>
    /\ ~Did("mkdir", 0) => (~Issued("rm -rf") /\ tmp_dir = <<FALSE, <<>>>>)

\* C22 witness: the removal was issued after a failing archive command
C22_Witness ==
    /\ Done
    /\ Did("sudo tar", 1)
    /\ Issued("rm -rf")

(***************************************************************************)
(* Two runs interleaved against one host, from the statement that creates  *)
(* the scratch directory (lines 108-143); the statements before it share   *)
(* nothing that is written.  Each run has computed its directory name from *)
(* the clock (lines 110-111), the two names may be equal.  /tmp of the     *)
(* host is shared; an operation on a scratch directory is logged with the  *)
(* run that created the directory it found.                                *)
(***************************************************************************)
InitTwoRuns ==
    /\ host_tmp = [n \in ScratchNames |-> 0]
    /\ run_at \in [Runs -> [pc : {"mkdir"}, name : ScratchNames, left : 0..MaxLines]]
    /\ touched = {}
    /\ pc = "done"
    /\ etc = {}
    /\ config_diff = <<>>
    /\ finished = <<>>
    /\ tmp_dir = <<FALSE, <<>>>>
    /\ client = "new"
    /\ sftp = "none"
    /\ stdout = <<>>
    /\ changes = <<>>
    /\ item = 1
    /\ files_dir_to_tar = <<>>
    /\ f_delete_exists = FALSE
    /\ whiteout_of = <<>>
    /\ tar_command = <<>>
    /\ archive = <<>>
    /\ diff_dir = {}
    /\ error = NoError
    /\ trace = <<>>

\* run r issues op on its scratch-directory name
Touch(r, op) ==
    touched' = touched \cup {[run |-> r, op |-> op, name |-> run_at[r].name,
                              creator |-> host_tmp[run_at[r].name]]}

\* run r is at statement s next
GoTo(r, s) == run_at' = [run_at EXCEPT ![r].pc = s]

\* a variant of MkTmpDirOf for a mkdir that accepts an existing directory
MkTmpDirOf_ExistOk(r) ==
    /\ run_at[r].pc = "mkdir"
    /\ \/ /\ host_tmp' = [host_tmp EXCEPT ![run_at[r].name] =
                              IF @ = 0 THEN r ELSE @]
          /\ GoTo(r, "loop")
       \/ /\ host_tmp' = host_tmp
          /\ GoTo(r, "done")
    /\ UNCHANGED touched

\* line 113: sftp.mkdir raises when the directory exists, or for another
\* reason; the run ends there
MkTmpDirOf(r) ==
    /\ run_at[r].pc = "mkdir"
    /\ \/ /\ host_tmp[run_at[r].name] = 0
          /\ host_tmp' = [host_tmp EXCEPT ![run_at[r].name] = r]
          /\ GoTo(r, "loop")
       \/ /\ host_tmp' = host_tmp
          /\ GoTo(r, "done")
    /\ UNCHANGED touched

\* lines 67-72, 121-123: one deletion of the loop; `mkdir -p` makes the scratch
\* directory too when it finds none; a non-zero status ends the run
WhiteoutsOf(r) ==
    /\ run_at[r].pc = "loop"
    /\ run_at[r].left > 0
    /\ Touch(r, "mkdir -p && touch")
    /\ \E status \in ExitStatus :
          IF status > 0
          THEN /\ GoTo(r, "done")
               /\ host_tmp' = host_tmp
          ELSE /\ run_at' = [run_at EXCEPT ![r].left = @ - 1]
               /\ host_tmp' = [host_tmp EXCEPT ![run_at[r].name] =
                                   IF @ = 0 THEN r ELSE @]

\* `rm -rf` of run r's name: with status zero the directory is gone
RemoveOf(r, status) ==
    host_tmp' = [host_tmp EXCEPT ![run_at[r].name] = IF status = 0 THEN 0 ELSE @]

\* lines 125-138: the archive is written into the scratch directory; a
\* non-zero status (always, when the directory is not there) removes the
\* directory and ends the run
MakeTarOf(r) ==
    /\ run_at[r].pc = "loop"
    /\ run_at[r].left = 0
    /\ \E status \in ExitStatus :
          /\ host_tmp[run_at[r].name] = 0 => status > 0
          /\ IF status > 0
             THEN /\ \E rm \in ExitStatus : RemoveOf(r, rm)
                  /\ touched' = touched \cup
                        {[run |-> r, op |-> op, name |-> run_at[r].name,
                          creator |-> host_tmp[run_at[r].name]] : op \in {"sudo tar", "rm -rf"}}
                  /\ GoTo(r, "done")
             ELSE /\ Touch(r, "sudo tar")
                  /\ host_tmp' = host_tmp
                  /\ GoTo(r, "get")

\* lines 141-143: download the archive from the scratch directory, then remove
\* the directory; a failing download raises before the removal
GetTarOf(r) ==
    /\ run_at[r].pc = "get"
    /\ GoTo(r, "done")
    /\ \/ /\ Touch(r, "get")
          /\ host_tmp' = host_tmp
       \/ /\ host_tmp[run_at[r].name] # 0
          /\ \E rm \in ExitStatus : RemoveOf(r, rm)
          /\ touched' = touched \cup
                {[run |-> r, op |-> op, name |-> run_at[r].name,
                  creator |-> host_tmp[run_at[r].name]] : op \in {"get", "rm -rf"}}

NextTwoRuns ==
    /\ \E r \in Runs :
          \/ MkTmpDirOf(r)
          \/ WhiteoutsOf(r)
          \/ MakeTarOf(r)
          \/ GetTarOf(r)
    /\ UNCHANGED <<pc, etc, config_diff, finished, tmp_dir, client, sftp, stdout, changes,
                   item, files_dir_to_tar, f_delete_exists, whiteout_of, tar_command,
                   archive, diff_dir, error, trace>>

SpecTwoRuns == InitTwoRuns /\ [][NextTwoRuns]_vars

(***************************************************************************)
(* C23: of two interleaved runs against one host, each writes markers      *)
(* into, archives, downloads from and removes only the scratch directory   *)
(* it created itself.  With distinct names neither touches the other's     *)
(* directory; with equal names the run whose creation of the directory     *)
(* fails issues no operation on it.                                        *)
(***************************************************************************)
C23_OnlyOwnScratchDirectory ==
    /\ \A t \in touched : t.creator = t.run /\ t.name = run_at[t.run].name
    /\ \A r \in Runs : run_at[r].pc \in {"loop", "get"} => host_tmp[run_at[r].name] = r

\* C23 witness: both runs computed the same name and both have operated on a
\* directory of that name, one after the other
C23_Witness ==
    /\ run_at[1].name = run_at[2].name
    /\ \E t, u \in touched : t.run = 1 /\ u.run = 2

(***************************************************************************)
(* C24: a run that fails before the download leaves the local output       *)
(* directory as it was: a failing connection, a non-zero diff, an empty    *)
(* filtered list, a failing creation of the scratch directory, a failing   *)
(* whiteout or a failing archive command write nothing locally.            *)
(***************************************************************************)
C24_NothingLocalBeforeDownload ==
    /\ ~Issued("get") => diff_dir = {}
    /\ (Done /\ (\/ Did("connect", 1)
                 \/ Did("sudo ostree admin config-diff", 1)
                 \/ error = TorizonCoreBuilderError(MsgNoChange)
                 \/ Did("open_sftp", 1)
                 \/ Did("mkdir", 1)
                 \/ Did("listdir", 1)
                 \/ Did("mkdir -p && touch", 1)
                 \/ Did("sudo tar", 1)))
          => (~Issued("get") /\ diff_dir = {})

\* C24 witness: the run failed at the archive command, after markers had been
\* staged on the remote
C24_Witness ==
    /\ Done
    /\ error = TorizonCoreBuilderError(MsgTar)
    /\ DOMAIN whiteout_of # {}
    /\ ContentPaths # <<>>

(***************************************************************************)
(* C25: whenever the archive command is executed its member list is not    *)
(* empty: with a deletion in the change list the scratch base "." is a     *)
(* member, without one at least one Added/Modified path is, the filtered   *)
(* change list being non-empty.                                            *)
(***************************************************************************)
C25_MembersNotEmpty ==
    tar_command # <<>> =>
        /\ changes # <<>>
        /\ tar_command.members # <<>>
        /\ HasDeletion => <<".">> \in Range(tar_command.members)
        /\ ~HasDeletion =>
              /\ ContentPaths # <<>>
              /\ \E k \in 1..Len(tar_command.members) :
                    tar_command.members[k] \in Range(ContentPaths)

\* C25 witness: the archive command was executed for a list of deletions only
C25_Witness ==
    /\ tar_command # <<>>
    /\ HasDeletion
    /\ ContentPaths = <<>>

\* the absolute names the run's remote operations have written or removed:
\* the scratch directory (sftp.mkdir, rm -rf), the directories and the marker
\* of each marker command, the archive file of the tar command
RemoteWriteTargets ==
    (IF Issued("mkdir") \/ Issued("rm -rf") THEN {tmp_dir_name} ELSE {})
    \cup UNION {{tmp_dir_name \o <<SLASH>> \o n :
                    n \in {whiteout_of[i]} \cup Range(mkdir_p(rsplit1(whiteout_of[i])[1]))} :
                i \in DOMAIN whiteout_of}
    \cup (IF tar_command # <<>> THEN {tar_command.file} ELSE {})

\* name n is the directory d or lies below it
Under(n, d) ==
    /\ Len(n) >= Len(d)
    /\ SubSeq(n, 1, Len(d)) = d
    /\ Len(n) > Len(d) => n[Len(d) + 1] = SLASH
    /\ ".." \notin Range(n)

(***************************************************************************)
(* C26: a run creates, modifies and deletes nothing under the remote       *)
(* configuration root: /etc and its diff stay as they are at every step,   *)
(* and every name a remote operation writes or removes (the scratch        *)
(* directory, marker directories and files, the archive file) is the       *)
(* scratch directory or lies below it.                                     *)
(***************************************************************************)
C26_ConfigRootOnlyRead ==
    /\ [][etc' = etc /\ config_diff' = config_diff]_vars
    /\ [](\A n \in RemoteWriteTargets :
             Under(n, tmp_dir_name) /\ ~Under(n, <<SLASH, "etc">>))

\* C26 witness: a marker was staged, the archive written and the scratch
\* directory removed, for a list with a path to archive
C26_Witness ==
    /\ Did("rm -rf", 0)
    /\ Did("get", 0)
    /\ DOMAIN whiteout_of # {}
    /\ ContentPaths # <<>>

(***************************************************************************)
(* The loop over a list of deletions, from the state a run is in once the  *)
(* connection, the diff, the transfer channel and the scratch directory    *)
(* have succeeded, for a device with two root-level files and a directory  *)
(* of three files, some of them deleted.                                   *)
(***************************************************************************)
DeletionEntities ==
    {<<"fstab">>, <<"motd">>, <<"docker">>, <<"docker", SLASH, "daemon.json">>,
     <<"docker", SLASH, "config.json">>, <<"docker", SLASH, "seccomp.json">>}

RECURSIVE DeletedSeqs(_, _)
DeletedSeqs(S, n) ==
    IF n = 0 THEN {<<>>}
    ELSE LET shorter == DeletedSeqs(S, n - 1)
         IN  shorter \cup {Append(s, p) : s \in {t \in shorter : Len(t) = n - 1},
                                          p \in S}

\* what the diff prints when it reports deletions only: at most MaxLines
\* absent paths, each once, after the password echo and the sudo prompt
DeletionOutputs(e) ==
    {join(CRLF, pre \o [i \in 1..Len(ps) |-> DiffLine("D", ps[i])]) \o <<CRLF>> :
        pre \in Preambles \ {<<>>},
        ps \in {q \in DeletedSeqs(DeletionEntities \ e, MaxLines) :
                   \A i, j \in 1..Len(q) : q[i] = q[j] => i = j}}

InitDeletions ==
    /\ etc \in {e \in SUBSET DeletionEntities : \A p \in e : Parent(p) = <<>> \/ Parent(p) \in e}
    /\ config_diff \in DeletionOutputs(etc)
    /\ stdout = config_diff
    /\ changes = FilterChanges(stdout)
    /\ ~no_changes(changes)
    /\ pc = "loop"
    /\ client = "connected"
    /\ sftp = "open"
    /\ tmp_dir = <<TRUE, <<>>>>
    /\ trace = << <<"connect", 0>>, <<"sudo ostree admin config-diff", 0>>,
                  <<"open_sftp", 0>>, <<"mkdir", 0>> >>
    /\ item = 1
    /\ files_dir_to_tar = <<>>
    /\ f_delete_exists = FALSE
    /\ whiteout_of = <<>>
    /\ tar_command = <<>>
    /\ archive = <<>>
    /\ diff_dir = {}
    /\ error = NoError
    /\ finished = <<>>
    /\ host_tmp = [n \in ScratchNames |-> 0]
    /\ run_at = [r \in Runs |-> [pc |-> "done", name |-> "", left |-> 0]]
    /\ touched = {}

NextDeletions ==
    \/ LoopItem
    \/ MakeTar

SpecDeletions == InitDeletions /\ [][NextDeletions]_vars

\* the marker files in the scratch tree
MarkerFiles == {x \in Range(tmp_dir[2]) : x[2] = "empty"}

(***************************************************************************)
(* C27: Deleted records that share a parent directory which is empty on    *)
(* the remote are all encoded by that directory's one opaque marker        *)
(* <dir>/.wh..wh..opq; when the directory is not empty, records with       *)
(* distinct names get distinct markers <dir>/.wh.<name>.  The scratch tree *)
(* never holds more marker files than there are Deleted records.           *)
(* Violated: for records at the top of the root the directory is never     *)
(* listed, each gets its own .wh.<name> although /etc is empty.            *)
(***************************************************************************)
C27_SharedOpaqueMarker ==
    /\ \A i, j \in DOMAIN whiteout_of :
          LET p == RecordPath(changes[i])
              q == RecordPath(changes[j])
              d == Parent(p)
              at == <<"etc", SLASH>> \o (IF d = <<>> THEN <<>> ELSE d \o <<SLASH>>)
          IN  (i # j /\ Parent(q) = d) =>
                 IF Siblings(d) = {}
                 THEN /\ whiteout_of[i] = at \o <<".wh..wh..opq">>
                      /\ whiteout_of[j] = whiteout_of[i]
                 ELSE /\ whiteout_of[i] = at \o <<".wh.">> \o BaseName(p)
                      /\ whiteout_of[j] = at \o <<".wh.">> \o BaseName(q)
                      /\ whiteout_of[i] # whiteout_of[j]
    /\ tmp_dir[1] =>
          Cardinality(MarkerFiles) <= Cardinality({i \in 1..Len(changes) : RecordCode(changes[i]) = "D"})

\* the archive the command of one shape writes for the member list built by
\* the loop, and whether the path /etc/<p> is in an archive
ArchiveOfShape(deletes) ==
    LET cmd == MakeTarCommand(deletes, files_dir_to_tar)
    IN  TarCreate(cmd, etc, tmp_dir[2], cmd.members)
Archived(ar, p) == \E k \in 1..Len(ar) : ar[k][1] = <<"etc", SLASH>> \o p

(***************************************************************************)
(* C28: whether an Added/Modified path ends up in the archive does not     *)
(* depend on a Deleted record being in the change list: every such path,   *)
(* one whose file name is the archive's own name included, is archived by  *)
(* the command of the deletions-present shape if and only if it is         *)
(* archived by the command of the no-deletions shape, and the archive the  *)
(* run wrote holds it.                                                     *)
(* Violated: the deletions-present shape excludes every member with a      *)
(* component isolated_changes.tar.                                         *)
(***************************************************************************)
C28_ArchivedWhateverTheShape ==
    pc = "get" =>
        \A i \in 1..Len(changes) :
            RecordCode(changes[i]) # "D" =>
                /\ Archived(ArchiveOfShape(TRUE), RecordPath(changes[i]))
                      <=> Archived(ArchiveOfShape(FALSE), RecordPath(changes[i]))
                /\ Archived(archive, RecordPath(changes[i]))

====
